---- MODULE Spec2Model ----
(***************************************************************************)
(* Model of src/streamlit_app.py: the SimilarityGrouper class and the part  *)
(* of main() that prepares its input and configuration.                     *)
(*                                                                          *)
(* A string is a sequence of one-character strings.  A similarity ratio is  *)
(* the exact rational [num, den] of the float the code computes; every      *)
(* comparison of ratios is done by cross-multiplication.  For the short     *)
(* words and small counts of this model two different rationals never       *)
(* round to the same float, so the comparisons agree with the code's.       *)
(***************************************************************************)
EXTENDS Integers, Sequences, FiniteSets

\* ------------------------------------------------------------------------
\* Bounds of the model
\* ------------------------------------------------------------------------

\* The longest uploaded file, in lines.
MaxLines == 3

\* The lines an uploaded file is made of (after decode and splitlines).
\* They cover: a repeated word, leading and trailing whitespace, an
\* upper-case letter, a blank line, a word pair whose ratio equals 0.8
\* ("ab"/"abc"), a word pair whose ratio depends on the order of the
\* arguments ("aba"/"bca") and a phrase with two similar words.
LineUniverse ==
    { <<" ","c"," ","c">>,
      <<"a","b"," ","c">>,
      <<"A","b","c"," ","c"," ">>,
      <<"a","b","a"," ","c">>,
      <<"b","c","a"," ","c">>,
      <<"a","b","c"," ","a","b">>,
      <<" ">> }

\* The positions of the threshold slider the model tries, in hundredths.
SliderThresholds == {50, 80, 100}

\* The positions of the min_similar_words slider the model tries: its lower
\* end and its default.  No two phrases of LineUniverse have more than two
\* similar word pairs, so that the positions 3 to 5 all behave like a
\* threshold of 1.0: nothing is grouped.
SliderMinWords == {1, 2}

\* Arguments a direct caller of the constructor may pass, in hundredths
\* (threshold) and as integers (min_similar_words).
ApiThresholds == {-50, 50, 150}
ApiMinWords == {0, 1, 2}

\* ------------------------------------------------------------------------
\* Program constants
\* ------------------------------------------------------------------------

\* st.slider("Limiar de Similaridade", 0.0, 1.0, 0.8): float slider, step 0.01
ThresholdScale == 100

\* ------------------------------------------------------------------------
\* str methods used by the code
\* ------------------------------------------------------------------------

\* str.lower on one character of the alphabet of LineUniverse
LowerChar(ch) ==
    CASE ch = "A" -> "a"
      [] ch = "B" -> "b"
      [] ch = "C" -> "c"
      [] OTHER -> ch

\* str.lower
lower(s) == [k \in 1..Len(s) |-> LowerChar(s[k])]

\* str.isspace on one character
IsSpace(ch) == ch = " "

\* str.strip: drop leading and trailing whitespace
RECURSIVE lstrip(_)
lstrip(s) ==
    IF s = <<>> THEN <<>>
    ELSE IF IsSpace(Head(s)) THEN lstrip(Tail(s))
    ELSE s

RECURSIVE rstrip(_)
rstrip(s) ==
    IF s = <<>> THEN <<>>
    ELSE IF IsSpace(s[Len(s)]) THEN rstrip(SubSeq(s, 1, Len(s) - 1))
    ELSE s

strip(s) == rstrip(lstrip(s))

\* str.split(): the maximal runs of non-whitespace characters, in order
RECURSIVE splitFrom(_, _, _)
splitFrom(s, k, cur) ==
    IF k > Len(s)
    THEN IF cur = <<>> THEN <<>> ELSE <<cur>>
    ELSE IF IsSpace(s[k])
         THEN IF cur = <<>> THEN splitFrom(s, k + 1, <<>>)
              ELSE <<cur>> \o splitFrom(s, k + 1, <<>>)
         ELSE splitFrom(s, k + 1, Append(cur, s[k]))

split(s) == splitFrom(s, 1, <<>>)

\* ------------------------------------------------------------------------
\* difflib.SequenceMatcher(None, a, b).ratio()
\* ------------------------------------------------------------------------

Min2(x, y) == IF x < y THEN x ELSE y

\* a[i:i+k] == b[j:j+k] (0-based offsets)
BlockMatches(a, b, i, j, k) == \A d \in 0..(k - 1) : a[i + d + 1] = b[j + d + 1]

\* SequenceMatcher.find_longest_match(alo, ahi, blo, bhi) without junk: the
\* longest matching block of a[alo:ahi] and b[blo:bhi]; of the longest ones
\* the one that starts earliest in a, and of those the one that starts
\* earliest in b.  <<alo, blo, 0>> when nothing matches.
find_longest_match(a, b, alo, ahi, blo, bhi) ==
    LET blocks == { t \in (alo..(ahi - 1)) \X (blo..(bhi - 1)) \X (1..Min2(ahi - alo, bhi - blo)) :
                      /\ t[1] + t[3] <= ahi
                      /\ t[2] + t[3] <= bhi
                      /\ BlockMatches(a, b, t[1], t[2], t[3]) }
    IN IF blocks = {} THEN <<alo, blo, 0>>
       ELSE CHOOSE t \in blocks :
              \A u \in blocks :
                 \/ t[3] > u[3]
                 \/ t[3] = u[3] /\ t[1] < u[1]
                 \/ t[3] = u[3] /\ t[1] = u[1] /\ t[2] <= u[2]

\* Sum of the sizes of SequenceMatcher.get_matching_blocks(): the longest
\* block, then the same on what is left of it and on what is right of it.
RECURSIVE matching_chars(_, _, _, _, _, _)
matching_chars(a, b, alo, ahi, blo, bhi) ==
    IF alo >= ahi \/ blo >= bhi THEN 0
    ELSE LET m == find_longest_match(a, b, alo, ahi, blo, bhi)
             i == m[1]
             j == m[2]
             k == m[3]
         IN IF k = 0 THEN 0
            ELSE k + matching_chars(a, b, alo, i, blo, j)
                   + matching_chars(a, b, i + k, ahi, j + k, bhi)

\* SequenceMatcher.ratio(): 2.0 * matches / length, 1.0 when length is 0
ratio(a, b) ==
    LET length == Len(a) + Len(b)
    IN IF length = 0 THEN [num |-> 1, den |-> 1]
       ELSE [num |-> 2 * matching_chars(a, b, 0, Len(a), 0, Len(b)), den |-> length]

\* r > threshold, the threshold in hundredths
ExceedsThreshold(r, threshold) == r.num * ThresholdScale > threshold * r.den

\* ------------------------------------------------------------------------
\* SimilarityGrouper
\* ------------------------------------------------------------------------

calculate_similarity(word1, word2) == ratio(lower(word1), lower(word2))

\* lines 29-31: (w1, w2) not in similar_pairs and (w2, w1) not in similar_pairs
not_recorded(similar_pairs, w1, w2) ==
    \A k \in DOMAIN similar_pairs :
        similar_pairs[k] # <<w1, w2>> /\ similar_pairs[k] # <<w2, w1>>

\* words_match with >= in place of >
words_match_or_equal(w1, w2, threshold) ==
    LET r == calculate_similarity(w1, w2)
    IN r.num * ThresholdScale >= threshold * r.den

\* line 32: self.calculate_similarity(w1, w2) > self.similarity_threshold
words_match(w1, w2, threshold) ==
    ExceedsThreshold(calculate_similarity(w1, w2), threshold)

\* lines 28-33: the two nested loops, n pairs (w1, w2) already visited in
\* row-major order; the value is the final similar_pairs list
RECURSIVE scan_pairs(_, _, _, _, _)
scan_pairs(words1, words2, n, similar_pairs, threshold) ==
    IF n >= Len(words1) * Len(words2) THEN similar_pairs
    ELSE LET w1 == words1[(n \div Len(words2)) + 1]
             w2 == words2[(n % Len(words2)) + 1]
         IN scan_pairs(words1, words2, n + 1,
                       IF not_recorded(similar_pairs, w1, w2) /\ words_match(w1, w2, threshold)
                       THEN Append(similar_pairs, <<w1, w2>>)
                       ELSE similar_pairs,
                       threshold)

get_similar_words_count(phrase1, phrase2, threshold) ==
    Len(scan_pairs(split(lower(phrase1)), split(lower(phrase2)), 0, <<>>, threshold))

are_phrases_similar(phrase1, phrase2, threshold, min_words) ==
    get_similar_words_count(phrase1, phrase2, threshold) >= min_words

extract_keywords(phrase) ==
    LET words == split(lower(phrase))
    IN { words[k] : k \in DOMAIN words }

\* lines 57-60: sum of the counts of the phrase against the group's phrases
RECURSIVE total_similarity(_, _, _)
total_similarity(phrase, group_phrases, threshold) ==
    IF group_phrases = <<>> THEN 0
    ELSE get_similar_words_count(phrase, Head(group_phrases), threshold)
         + total_similarity(phrase, Tail(group_phrases), threshold)

\* line 61: total_similarity / len(group_phrases), as an exact rational
average_similarity(phrase, group_phrases, threshold) ==
    [num |-> total_similarity(phrase, group_phrases, threshold),
     den |-> Len(group_phrases)]

\* qualifies with the total in place of the average
qualifies_by_total(average, min_words) == average.num >= min_words

\* line 63, first half: average_similarity >= self.min_similar_words
qualifies(average, min_words) == average.num >= min_words * average.den

\* improves with >= in place of >
improves_or_ties(average, best_match_score) ==
    average.num * best_match_score.den >= best_match_score.num * average.den

\* line 63, second half: average_similarity > best_match_score
improves(average, best_match_score) ==
    average.num * best_match_score.den > best_match_score.num * average.den

\* lines 52-65: the scan of the groups from position idx on (1-based), with
\* the running best_match (0 is None) and best_match_score.  The value is
\* the final best_match, or -1 when a group has no phrase (the division of
\* line 61 raises ZeroDivisionError).
RECURSIVE find_best_match(_, _, _, _, _, _, _)
find_best_match(phrase, grps, idx, best_match, best_match_score, threshold, min_words) ==
    IF idx > Len(grps) THEN best_match
    ELSE IF Len(grps[idx].group_phrases) = 0 THEN -1
    ELSE LET average == average_similarity(phrase, grps[idx].group_phrases, threshold)
         IN IF qualifies(average, min_words) /\ improves(average, best_match_score)
            THEN find_best_match(phrase, grps, idx + 1, idx, average, threshold, min_words)
            ELSE find_best_match(phrase, grps, idx + 1, best_match, best_match_score,
                                 threshold, min_words)

\* add_to_group with the phrase replacing the members instead of joining them
add_to_group_replacing(grps, best_match, phrase) ==
    [grps EXCEPT ![best_match] =
        [keywords |-> @.keywords \cup extract_keywords(phrase),
         group_phrases |-> <<phrase>>]]

\* add_to_group without the update of the keywords
add_to_group_keeping_keywords(grps, best_match, phrase) ==
    [grps EXCEPT ![best_match] =
        [keywords |-> @.keywords,
         group_phrases |-> Append(@.group_phrases, phrase)]]

\* lines 69-71: keywords.update(extract_keywords(phrase)); group_phrases.append(phrase)
add_to_group(grps, best_match, phrase) ==
    [grps EXCEPT ![best_match] =
        [keywords |-> @.keywords \cup extract_keywords(phrase),
         group_phrases |-> Append(@.group_phrases, phrase)]]

\* new_group with the group inserted at the front
new_group_at_front(grps, phrase) ==
    <<[keywords |-> extract_keywords(phrase), group_phrases |-> <<phrase>>]>> \o grps

\* line 74: groups.append((self.extract_keywords(phrase), [phrase]))
new_group(grps, phrase) ==
    Append(grps, [keywords |-> extract_keywords(phrase), group_phrases |-> <<phrase>>])

\* ------------------------------------------------------------------------
\* main(): preparation of the phrases
\* ------------------------------------------------------------------------

\* non_blank_lines without the filter
RECURSIVE stripped_lines(_)
stripped_lines(ls) ==
    IF ls = <<>> THEN <<>>
    ELSE <<strip(Head(ls))>> \o stripped_lines(Tail(ls))

\* line 88: [line.strip() for line in ... if line.strip()]
RECURSIVE non_blank_lines(_)
non_blank_lines(ls) ==
    IF ls = <<>> THEN <<>>
    ELSE IF strip(Head(ls)) # <<>>
         THEN <<strip(Head(ls))>> \o non_blank_lines(Tail(ls))
         ELSE non_blank_lines(Tail(ls))

\* line 91: pd.Series(phrases).drop_duplicates(): the first occurrence of
\* every value, in order
RECURSIVE drop_duplicates_from(_, _)
drop_duplicates_from(ps, seen) ==
    IF ps = <<>> THEN <<>>
    ELSE IF Head(ps) \in seen THEN drop_duplicates_from(Tail(ps), seen)
    ELSE <<Head(ps)>> \o drop_duplicates_from(Tail(ps), seen \cup {Head(ps)})

\* drop_duplicates that drops nothing
keep_duplicates(ps) == ps

drop_duplicates(ps) == drop_duplicates_from(ps, {})

\* ------------------------------------------------------------------------
\* State
\* ------------------------------------------------------------------------

VARIABLES
    caller,                 \* "main": the Streamlit page; "api": a direct user of the class
    pc,                     \* "upload", "sliders", "group", "done" or "error"
    lines,                  \* the lines of the uploaded file
    phrases,                \* the list given to group_similar_phrases
    similarity_threshold,   \* self.similarity_threshold, in hundredths
    min_similar_words,      \* self.min_similar_words
    groups,                 \* the list of (keywords, group_phrases)
    pos                     \* the position in phrases of the next phrase of the for loop

vars == <<caller, pc, lines, phrases, similarity_threshold, min_similar_words, groups, pos>>

\* every file of at most MaxLines lines
Files == UNION { [1..n -> LineUniverse] : n \in 0..MaxLines }

InitWith(c) ==
    /\ caller = c
    /\ pc = "upload"
    /\ lines \in Files
    /\ phrases = <<>>
    /\ similarity_threshold = 0
    /\ min_similar_words = 0
    /\ groups = <<>>
    /\ pos = 1

Init == InitWith("main")

InitApi == InitWith("api")

\* lines 85-91: the file is read, blank lines and duplicates are dropped
ReadFile ==
    /\ pc = "upload"
    /\ phrases' = drop_duplicates(non_blank_lines(lines))
    /\ pc' = "sliders"
    /\ UNCHANGED <<caller, lines, similarity_threshold, min_similar_words, groups, pos>>

\* the values of the two arguments of the constructor: the sliders of
\* lines 98-99 on the page, anything for a direct caller
ThresholdArgs == IF caller = "main" THEN SliderThresholds ELSE ApiThresholds

MinWordsArgs == IF caller = "main" THEN SliderMinWords ELSE ApiMinWords

\* lines 14-16: __init__ stores its two arguments
Construct(threshold, min_words) ==
    /\ pc = "sliders"
    /\ similarity_threshold' = threshold
    /\ min_similar_words' = min_words
    /\ groups' = <<>>
    /\ pos' = 1
    /\ pc' = "group"
    /\ UNCHANGED <<caller, lines, phrases>>

\* lines 51-74: one iteration of the for loop of group_similar_phrases
ProcessPhrase ==
    /\ pc = "group"
    /\ pos <= Len(phrases)
    /\ LET phrase == phrases[pos]
           best_match == find_best_match(phrase, groups, 1, 0, [num |-> 0, den |-> 1],
                                         similarity_threshold, min_similar_words)
       IN IF best_match = -1
          THEN pc' = "error" /\ UNCHANGED <<groups, pos>>
          ELSE /\ groups' = IF best_match # 0
                            THEN add_to_group(groups, best_match, phrase)
                            ELSE new_group(groups, phrase)
               /\ pos' = pos + 1
               /\ pc' = pc
    /\ UNCHANGED <<caller, lines, phrases, similarity_threshold, min_similar_words>>

\* line 76: return groups
Return ==
    /\ pc = "group"
    /\ pos > Len(phrases)
    /\ pc' = "done"
    /\ UNCHANGED <<caller, lines, phrases, similarity_threshold, min_similar_words, groups, pos>>

Next ==
    \/ ReadFile
    \/ \E threshold \in ThresholdArgs, min_words \in MinWordsArgs : Construct(threshold, min_words)
    \/ ProcessPhrase
    \/ Return

Spec == Init /\ [][Next]_vars

SpecApi == InitApi /\ [][Next]_vars

\* ------------------------------------------------------------------------
\* Properties
\* ------------------------------------------------------------------------

\* the grouper exists: __init__ has returned
Constructed == pc \in {"group", "done", "error"}

\* the phrases the for loop has consumed
Processed == IF Constructed THEN 1..(pos - 1) ELSE {}

\* the places (group, position) of the member lists that hold phrase p
Occurrences(p) ==
    { t \in (DOMAIN groups) \X (1..Len(phrases)) :
        /\ t[2] \in DOMAIN groups[t[1]].group_phrases
        /\ groups[t[1]].group_phrases[t[2]] = p }

\* all the phrases of the member lists
AllMembers ==
    UNION { { groups[g].group_phrases[k] : k \in DOMAIN groups[g].group_phrases } :
            g \in DOMAIN groups }

\* the words of a phrase, as the counter sees them
Tokens(p) == LET words == split(lower(p)) IN { words[k] : k \in DOMAIN words }

\* C1: every phrase the loop has consumed is in the member list of exactly
\* one group, exactly once, and the member lists together hold exactly the
\* consumed phrases; at return all the input phrases are consumed.
C1_ExactlyOneCluster ==
    /\ \A n \in Processed : Cardinality(Occurrences(phrases[n])) = 1
    /\ AllMembers = { phrases[n] : n \in Processed }
    /\ pc = "done" => Processed = DOMAIN phrases

C1_Witness ==
    /\ pc = "done"
    /\ Len(phrases) >= 3
    /\ Len(groups) >= 2
    /\ \E g \in DOMAIN groups : Len(groups[g].group_phrases) >= 2

\* C2: the keyword set of every group is the union of extract_keywords over
\* the group's member phrases.
C2_KeywordsAreUnion ==
    \A g \in DOMAIN groups :
        groups[g].keywords =
            UNION { extract_keywords(groups[g].group_phrases[k]) :
                    k \in DOMAIN groups[g].group_phrases }

C2_Witness ==
    /\ pc = "done"
    /\ \E g \in DOMAIN groups :
          /\ Len(groups[g].group_phrases) >= 2
          /\ groups[g].keywords # extract_keywords(groups[g].group_phrases[1])

\* the total of the counts of phrase p against the members of the sequence ms
TotalOver(p, ms) == total_similarity(p, ms, similarity_threshold)

\* the positions of the member lists mls whose average against p is at
\* least min_similar_words
QualifyingIn(p, mls) ==
    { g \in DOMAIN mls : TotalOver(p, mls[g]) >= min_similar_words * Len(mls[g]) }

\* the positions of QualifyingIn whose average is the largest
MaximalIn(p, mls) ==
    { g \in QualifyingIn(p, mls) :
        \A h \in QualifyingIn(p, mls) :
            TotalOver(p, mls[g]) * Len(mls[h]) >= TotalOver(p, mls[h]) * Len(mls[g]) }

\* the earliest position of MaximalIn
EarliestMaximalIn(p, mls) ==
    CHOOSE g \in MaximalIn(p, mls) : \A h \in MaximalIn(p, mls) : g <= h

\* the member lists of the groups
MemberLists == [g \in DOMAIN groups |-> groups[g].group_phrases]

\* C3: a processed phrase goes to the end of the earliest-created group
\* among those with the largest average, when some group has an average of
\* at least min_similar_words; otherwise it founds a new group at the end
\* of the list.
C3_EarliestBestCluster ==
    [][ (pc = "group" /\ pos' = pos + 1) =>
          LET p == phrases[pos]
          IN IF QualifyingIn(p, MemberLists) # {}
             THEN LET g == EarliestMaximalIn(p, MemberLists)
                  IN /\ Len(groups') = Len(groups)
                     /\ groups'[g].group_phrases = Append(groups[g].group_phrases, p)
                     /\ \A h \in DOMAIN groups : h # g =>
                           groups'[h].group_phrases = groups[h].group_phrases
             ELSE /\ Len(groups') = Len(groups) + 1
                  /\ groups'[Len(groups')].group_phrases = <<p>>
                  /\ \A h \in DOMAIN groups :
                        groups'[h].group_phrases = groups[h].group_phrases ]_vars

\* the phrase processed last, and the member lists as they were before it
LastPhrase == phrases[pos - 1]

MemberListsBefore ==
    LET n == Len(groups)
        kept == IF groups[n].group_phrases = <<LastPhrase>> THEN n - 1 ELSE n
    IN [g \in 1..kept |->
          LET ms == groups[g].group_phrases
          IN IF ms[Len(ms)] = LastPhrase THEN SubSeq(ms, 1, Len(ms) - 1) ELSE ms]

\* the last phrase had two groups with the same, largest, qualifying average
\* and went to the earlier one
C3_Witness ==
    /\ Constructed
    /\ pos > 1
    /\ Cardinality(MaximalIn(LastPhrase, MemberListsBefore)) >= 2
    /\ LET g == EarliestMaximalIn(LastPhrase, MemberListsBefore)
       IN groups[g].group_phrases = Append(MemberListsBefore[g], LastPhrase)

\* the last phrase had a qualifying group before the one of largest average
C3_WitnessLater ==
    /\ Constructed
    /\ pos > 1
    /\ QualifyingIn(LastPhrase, MemberListsBefore) # {}
    /\ \E h \in QualifyingIn(LastPhrase, MemberListsBefore) :
          h < EarliestMaximalIn(LastPhrase, MemberListsBefore)

\* C4: get_similar_words_count gives the same count with its arguments
\* exchanged.
C4_CountSymmetric ==
    Constructed =>
        \A m, n \in DOMAIN phrases :
            get_similar_words_count(phrases[m], phrases[n], similarity_threshold)
              = get_similar_words_count(phrases[n], phrases[m], similarity_threshold)

\* C5: calculate_similarity gives the same ratio with its arguments
\* exchanged.
C5_SimilaritySymmetric ==
    Constructed =>
        \A m, n \in DOMAIN phrases :
            \A w1 \in Tokens(phrases[m]), w2 \in Tokens(phrases[n]) :
                calculate_similarity(w1, w2) = calculate_similarity(w2, w1)

\* the unordered pairs of a word of p1 and a word of p2 whose ratio, taken
\* from the word of p1 to the word of p2, is above the threshold
SimilarValuePairs(p1, p2) ==
    { {w[1], w[2]} : w \in { v \in Tokens(p1) \X Tokens(p2) :
          ExceedsThreshold(calculate_similarity(v[1], v[2]), similarity_threshold) } }

\* C6: for every two phrases of the grouped list, get_similar_words_count
\* is the number of distinct unordered pairs of a word of the first phrase
\* and a word of the second whose ratio is strictly above the threshold.
C6_CountIsDistinctPairs ==
    pc = "done" =>
        \A m, n \in DOMAIN phrases :
            get_similar_words_count(phrases[m], phrases[n], similarity_threshold)
              = Cardinality(SimilarValuePairs(phrases[m], phrases[n]))

\* two phrases with a word pair exactly at the threshold, a repeated word
\* and a pair of words met in both orders
C6_Witness ==
    /\ pc = "done"
    /\ \E m, n \in DOMAIN phrases :
          \E w1 \in Tokens(phrases[m]), w2 \in Tokens(phrases[n]) :
             LET r == calculate_similarity(w1, w2)
             IN r.num * ThresholdScale = similarity_threshold * r.den
    /\ \E m \in DOMAIN phrases :
          Len(split(lower(phrases[m]))) > Cardinality(Tokens(phrases[m]))
    /\ \E m, n \in DOMAIN phrases :
          \E w1, w2 \in Tokens(phrases[m]) \cap Tokens(phrases[n]) :
             /\ w1 # w2
             /\ {w1, w2} \in SimilarValuePairs(phrases[m], phrases[n])

\* C7: no grouper exists with a threshold outside [0, 1] or with
\* min_similar_words below 1.
C7_ConfigurationValidated ==
    Constructed =>
        /\ 0 <= similarity_threshold
        /\ similarity_threshold <= ThresholdScale
        /\ min_similar_words >= 1

\* the position of a phrase in the input list
PositionOf(p) == CHOOSE n \in DOMAIN phrases : phrases[n] = p

\* the member lists and the founders of the groups are in input order
InInputOrder ==
    /\ \A g \in DOMAIN groups :
          \A j, k \in DOMAIN groups[g].group_phrases :
             j < k => PositionOf(groups[g].group_phrases[j]) < PositionOf(groups[g].group_phrases[k])
    /\ \A g, h \in DOMAIN groups :
          g < h => PositionOf(groups[g].group_phrases[1]) < PositionOf(groups[h].group_phrases[1])

\* one step of the grouper leaves the groups alone, or appends the current
\* phrase to one group and only adds keywords to it, or appends one new group
GrowsByOnePhrase ==
    \/ groups' = groups
    \/ /\ pos' = pos + 1
       /\ \E g \in DOMAIN groups :
             /\ Len(groups') = Len(groups)
             /\ groups'[g].group_phrases = Append(groups[g].group_phrases, phrases[pos])
             /\ groups[g].keywords \subseteq groups'[g].keywords
             /\ \A h \in DOMAIN groups : h # g => groups'[h] = groups[h]
    \/ /\ pos' = pos + 1
       /\ Len(groups') = Len(groups) + 1
       /\ groups'[Len(groups')].group_phrases = <<phrases[pos]>>
       /\ \A h \in DOMAIN groups : groups'[h] = groups[h]

\* C8: the groups only grow, by one phrase at the end of one member list or
\* by one new group at the end of the list, and the founders of the groups
\* and the members of each group are in input order.
C8_MonotonicGrowth ==
    /\ [](Constructed => InInputOrder)
    /\ [][Constructed => GrowsByOnePhrase]_vars

C8_Witness ==
    /\ pc = "done"
    /\ Len(groups) >= 2
    /\ \E g \in DOMAIN groups :
          /\ g < Len(groups)
          /\ Len(groups[g].group_phrases) >= 2
          /\ PositionOf(groups[g].group_phrases[2]) > PositionOf(groups[g + 1].group_phrases[1])

\* C9: every group has a member and a keyword, and the division by the
\* number of members never fails.
C9_GroupsNonEmpty ==
    /\ pc # "error"
    /\ \A g \in DOMAIN groups :
          /\ Len(groups[g].group_phrases) >= 1
          /\ groups[g].keywords # {}

\* an average was computed over a group of two members
C9_Witness ==
    /\ Constructed
    /\ pos > 1
    /\ \E g \in DOMAIN MemberListsBefore : Len(MemberListsBefore[g]) >= 2

\* no phrase of the input is similar to another one, in either order
NoSimilarPhrases ==
    \A m, n \in DOMAIN phrases :
        m # n => ~are_phrases_similar(phrases[m], phrases[n],
                                      similarity_threshold, min_similar_words)

\* one singleton group per phrase, in input order
AllSingletons ==
    /\ Len(groups) = Len(phrases)
    /\ \A n \in DOMAIN phrases : groups[n].group_phrases = <<phrases[n]>>

\* C10: a phrase joins a group only if are_phrases_similar(phrase, member)
\* holds for a member of the group; when are_phrases_similar is false for
\* every ordered pair of distinct input phrases, the result is one
\* singleton group per phrase, in input order.
C10_ConsistentWithClassifier ==
    /\ []((pc = "done" /\ NoSimilarPhrases) => AllSingletons)
    /\ [][ (pc = "group" /\ pos' = pos + 1 /\ Len(groups') = Len(groups)) =>
             \E g \in DOMAIN groups :
                /\ groups'[g].group_phrases = Append(groups[g].group_phrases, phrases[pos])
                /\ \E k \in DOMAIN groups[g].group_phrases :
                      are_phrases_similar(phrases[pos], groups[g].group_phrases[k],
                                          similarity_threshold, min_similar_words) ]_vars

\* a phrase joined a group of two, being similar to only one of them
C10_Witness ==
    /\ Constructed
    /\ pos > 1
    /\ \E g \in DOMAIN MemberListsBefore :
          /\ groups[g].group_phrases = Append(MemberListsBefore[g], LastPhrase)
          /\ Len(MemberListsBefore[g]) >= 2
          /\ \E k \in DOMAIN MemberListsBefore[g] :
                ~are_phrases_similar(LastPhrase, MemberListsBefore[g][k],
                                     similarity_threshold, min_similar_words)

\* three or more phrases, none similar to another, returned as singletons
C10_WitnessSingletons ==
    /\ pc = "done"
    /\ Len(phrases) >= 3
    /\ similarity_threshold < ThresholdScale
    /\ NoSimilarPhrases
    /\ AllSingletons

====
